---------------------------- MODULE Spec2Model ----------------------------
(***************************************************************************)
(* mcp-guard: a reverse proxy in front of one upstream MCP endpoint.       *)
(* The model follows createProxyHandler (proxy.js) for one request: the    *)
(* synchronous decision sequence of the handler, then the events of the    *)
(* forwarded exchange (body chunks through the size limiter, the upstream  *)
(* response callback, the timeout, error and close listeners).             *)
(*                                                                         *)
(* Strings the code takes apart (the request URL, a Content-Length value)  *)
(* are sequences of one-character strings; header sets are functions from  *)
(* case-sensitive keys to values, as JavaScript objects are.               *)
(***************************************************************************)
EXTENDS Integers, Sequences, FiniteSets, TLC

(* ------------------------------ bounds --------------------------------- *)

\* config.maxBodyBytes of the modelled deployment (the tests use 10).
MaxBodyBytes == 2
\* The largest body chunk a stream delivers at once.
MaxChunk == 3
\* How many chunks a request body has at most.
MaxReqChunks == 2
\* How many chunks an upstream response body has at most.
MaxResChunks == 1
\* upstreamTimeoutMs, in ticks of the clock.
upstreamTimeoutTicks == 2
\* The clock stops counting the time since dispatch at this many ticks.
MaxElapsed == 4

(* --------------------------- configuration ----------------------------- *)

\* JavaScript null (config.authBearerToken when no token is configured).
Null == "<null>"

\* JavaScript truthiness of a string-or-null value.
Truthy(v) == v \notin {Null, ""}

\* config.mcpPath (MCP_PATH default "/mcp").
mcpPath == <<"/", "m", "c", "p">>

\* config.allowedOrigins (DEFAULT_ALLOWED_ORIGINS).
allowedOrigins == {"https://chatgpt.com", "https://chat.openai.com"}

\* The values config.authBearerToken takes: null, or the configured secret.
AuthTokens == {Null, "secret"}

(* ------------------------------ strings -------------------------------- *)

\* String.prototype.toLowerCase on the header names of the model.
ToLowerCase(s) ==
  CASE s = "Host" -> "host"
    [] s = "Connection" -> "connection"
    [] s = "Keep-Alive" -> "keep-alive"
    [] s = "TE" -> "te"
    [] s = "Transfer-Encoding" -> "transfer-encoding"
    [] s = "UPGRADE" -> "upgrade"
    [] s = "Content-Type" -> "content-type"
    [] s = "X-Content-Type-Options" -> "x-content-type-options"
    [] s = "Access-Control-Allow-Origin" -> "access-control-allow-origin"
    [] s = "Access-Control-Allow-Methods" -> "access-control-allow-methods"
    [] s = "Access-Control-Allow-Headers" -> "access-control-allow-headers"
    [] s = "Vary" -> "vary"
    [] s = "X-Forwarded-Proto" -> "x-forwarded-proto"
    [] s = "X-Forwarded-Host" -> "x-forwarded-host"
    [] s = "X-Forwarded-For" -> "x-forwarded-for"
    [] OTHER -> s

\* The index of the first occurrence of one of the characters cs in s, or
\* Len(s) + 1 when there is none.
RECURSIVE IndexOfAny(_, _, _)
IndexOfAny(s, cs, i) ==
  IF i > Len(s) THEN Len(s) + 1
  ELSE IF s[i] \in cs THEN i
  ELSE IndexOfAny(s, cs, i + 1)

\* s.split(c)[0]: the part of s before the first c.
SplitFirst(s, c) == SubSeq(s, 1, IndexOfAny(s, {c}, 1) - 1)

\* s.replace(/\/+$/, ""): s without its trailing slashes.
RECURSIVE StripTrailingSlashes(_)
StripTrailingSlashes(s) ==
  IF s # <<>> /\ s[Len(s)] = "/"
  THEN StripTrailingSlashes(SubSeq(s, 1, Len(s) - 1))
  ELSE s

normalizePath(p) ==
  LET noQuery == SplitFirst(SplitFirst(p, "?"), "#")
      withoutTrailing ==
        IF noQuery # <<"/">> THEN StripTrailingSlashes(noQuery) ELSE noQuery
  IN  IF withoutTrailing # <<>> THEN withoutTrailing ELSE <<"/">>

\* new URL(req.url, base).pathname for an origin-form request target: the
\* part before the query string and the fragment.
UrlPathname(u) == SubSeq(u, 1, IndexOfAny(u, {"?", "#"}, 1) - 1)

\* new URL(req.url, base).search: from the first "?" to the fragment, and
\* empty when the query itself is empty.
UrlSearch(u) ==
  LET q == IndexOfAny(u, {"?", "#"}, 1)
      h == IndexOfAny(u, {"#"}, 1)
  IN  IF q > Len(u) \/ u[q] = "#" \/ h = q + 1 \/ q = Len(u) THEN <<>>
      ELSE SubSeq(u, q, h - 1)

\* Whether new URL(req.url, `http://${host}`) parses; it throws on a Host
\* value that is no host.
UrlParses(host) == host # "["

DigitValue(c) ==
  CASE c = "0" -> 0 [] c = "1" -> 1 [] c = "2" -> 2 [] c = "3" -> 3
    [] c = "4" -> 4 [] c = "5" -> 5 [] c = "6" -> 6 [] c = "7" -> 7
    [] c = "8" -> 8 [] c = "9" -> 9 [] OTHER -> -1

\* JavaScript NaN.
NaN == -1

\* Number(s) for a string of decimal digits; NaN when a character is no
\* digit. Number("") is 0.
RECURSIVE NumberOf(_)
NumberOf(s) ==
  IF s = <<>> THEN 0
  ELSE LET head == NumberOf(SubSeq(s, 1, Len(s) - 1))
           d == DigitValue(s[Len(s)])
       IN  IF head = NaN \/ d = -1 THEN NaN ELSE 10 * head + d

\* Number.isFinite
IsFinite(n) == n # NaN

\* The decimal digits of n, as a request writes its Content-Length.
RECURSIVE Digits(_)
Digits(n) ==
  LET c == <<"0", "1", "2", "3", "4", "5", "6", "7", "8", "9">>[(n % 10) + 1]
  IN  IF n < 10 THEN <<c>> ELSE Digits(n \div 10) \o <<c>>

(* ------------------------------ headers -------------------------------- *)

\* The empty header object {}.
NoHeaders == [k \in {} |-> ""]

\* headers[name] ?? dflt
Get(headers, name, dflt) ==
  IF name \in DOMAIN headers THEN headers[name] ELSE dflt

\* Object.assign(target, source)
ObjectAssign(target, source) ==
  [k \in DOMAIN target \cup DOMAIN source |->
     IF k \in DOMAIN source THEN source[k] ELSE target[k]]

\* What the peer reads for a header name: HTTP header names are
\* case-insensitive, so every key of the head that spells the name counts.
WireValues(headers, name) ==
  {headers[k] : k \in {x \in DOMAIN headers : ToLowerCase(x) = name}}

\* A hop-by-hop test that forgot one name.
isHopByHopHeader_NoTrailer(name) ==
  ToLowerCase(name) \in
    {"connection", "keep-alive", "proxy-authenticate", "proxy-authorization",
     "te", "transfer-encoding", "upgrade"}

isHopByHopHeader(name) ==
  LET n == ToLowerCase(name)
  IN  \/ n = "connection"
      \/ n = "keep-alive"
      \/ n = "proxy-authenticate"
      \/ n = "proxy-authorization"
      \/ n = "te"
      \/ n = "trailer"
      \/ n = "transfer-encoding"
      \/ n = "upgrade"

sanitizeRequestHeaders(inHeaders) ==
  LET kept == {k \in DOMAIN inHeaders :
                 /\ k # ""
                 /\ ToLowerCase(k) # "host"
                 /\ ~isHopByHopHeader(ToLowerCase(k))}
  IN  [k \in kept |-> inHeaders[k]]

\* The null a denied origin gets from corsHeadersForOrigin: a header object
\* without keys (an allowed origin's always has some).
NoCors == [k \in {} |-> ""]

\* cors.js, corsHeadersForOrigin(origin, { allowedOrigins }): the CORS
\* headers echoing the origin when it is an allowlist entry, else null.
corsHeadersForOrigin(origin) ==
  IF origin \in allowedOrigins
  THEN ("Access-Control-Allow-Origin" :> origin) @@
       ("Vary" :> "Origin") @@
       ("Access-Control-Allow-Methods" :> "GET, POST, DELETE, OPTIONS") @@
       ("Access-Control-Allow-Headers" :> "Content-Type, Authorization")
  ELSE NoCors



(* ------------------------------- state --------------------------------- *)

VARIABLES
  config,    \* the configuration the handler was created with
  pc,        \* "idle" before the request, then the handler's position
  req,       \* the inbound request: url, method, headers
  route,     \* the branch of the decision sequence that took the request
  res,       \* the response to the client (http.ServerResponse)
  upstreamReq,  \* the outbound request (http.ClientRequest)
  upstreamRes,  \* the upstream's response (http.IncomingMessage)
  limiter,   \* the size limit stream: bytes seen, bytes passed on, errored
  reqBody,   \* the body chunks the client has delivered so far, and its end
  attempts,  \* how many times upstreamClient.request was called
  clock,     \* ticks since the upstream socket was last active, and since dispatch
  parked     \* the other request in flight: the state of its handler call

\* The state of one call of the handler: its arguments, its locals and the
\* objects it created.
call == <<pc, req, route, res, upstreamReq, upstreamRes, limiter, reqBody, attempts>>

vars == <<config, call, clock, parked>>

(* ------------------------------ requests ------------------------------- *)

Methods == {"GET", "POST", "DELETE", "OPTIONS", "PUT"}

Urls ==
  { <<"/", "m", "c", "p">>,
    <<"/", "m", "c", "p", "/">>,
    <<"/", "m", "c", "p", "?", "a">>,
    <<"/", "h", "e", "a", "l", "t", "h">>,
    <<"/", "h", "e", "a", "l", "t", "h", "/", "?", "a">>,
    <<"/", "x">>,
    <<"/">> }

\* An optional header: no value, or one.
NoValue == {}

Origins == {NoValue, {"https://chatgpt.com"}, {"https://evil.example"}}

Authorizations == {NoValue, {"Bearer secret"}, {"Bearer wrong"}}

\* Content-Length: absent, the limit, one more than the limit, not a number.
ContentLengths ==
  {NoValue, {Digits(MaxBodyBytes)}, {Digits(MaxBodyBytes + 1)}, {<<"x">>}}

Hosts == {"proxy.example", "["}

OptHeader(name, value) ==
  [k \in {name : v \in value} |-> CHOOSE v \in value : TRUE]

\* The headers every modelled request carries beside the ones chosen.
FixedReqHeaders ==
  ("accept" :> "*/*") @@ ("connection" :> "keep-alive") @@
  ("Keep-Alive" :> "timeout=5") @@ ("proxy-authenticate" :> "Basic") @@
  ("proxy-authorization" :> "Basic abc") @@ ("TE" :> "trailers") @@
  ("trailer" :> "Expires") @@ ("Transfer-Encoding" :> "chunked") @@
  ("UPGRADE" :> "websocket")

RequestHeaders(host, origin, auth, cl) ==
  ("host" :> host) @@ OptHeader("origin", origin)
    @@ OptHeader("authorization", auth)
    @@ OptHeader("content-length", cl) @@ FixedReqHeaders

Requests ==
  { [url |-> u, method |-> m, headers |-> RequestHeaders(h, o, a, cl)] :
      u \in Urls, m \in Methods, h \in Hosts, o \in Origins,
      a \in Authorizations, cl \in ContentLengths }
  \cup
  { [url |-> <<>>, method |-> "GET",
     headers |-> RequestHeaders("proxy.example", NoValue, NoValue, NoValue)],
    [url |-> mcpPath, method |-> "",
     headers |-> RequestHeaders("proxy.example", NoValue, NoValue, NoValue)] }

(* -------------------------- decision sequence -------------------------- *)

MCP_METHODS == {"POST", "GET", "DELETE"}

\* const path = normalizePath(url.pathname)
PathOf(r) == normalizePath(UrlPathname(r.url))

\* const origin = String(req.headers.origin ?? "")
OriginOf(r) == Get(r.headers, "origin", "")

\* const cors = corsHeadersForOrigin(origin, { allowedOrigins })
CorsOf(r) == corsHeadersForOrigin(OriginOf(r))

IsMalformed(r) == r.url = <<>> \/ r.method = ""

\* A health check on the path as written, not as normalized.
IsHealth_RawPath(r) ==
  r.method = "GET" /\ UrlPathname(r.url) = <<"/", "h", "e", "a", "l", "t", "h">>

IsHealth(r) == r.method = "GET" /\ PathOf(r) = <<"/", "h", "e", "a", "l", "t", "h">>

\* A preflight test on the path as written, not as normalized.
IsPreflight_RawPath(r) ==
  r.method = "OPTIONS" /\ UrlPathname(r.url) = mcpPath

IsPreflight(r) == r.method = "OPTIONS" /\ PathOf(r) = mcpPath

IsNotFound(r) == PathOf(r) # mcpPath \/ r.method \notin MCP_METHODS

\* An origin check that denies a request without an Origin header too.
OriginDenied_MissingDenied(r) == CorsOf(r) = NoCors

OriginDenied(r) == OriginOf(r) # "" /\ CorsOf(r) = NoCors

\* An auth gate that asks only for the header's presence.
Unauthorized_PresenceOnly(r, token) ==
  Truthy(token) /\ "authorization" \notin DOMAIN r.headers

Unauthorized(r, token) ==
  /\ Truthy(token)
  /\ Get(r.headers, "authorization", "") # "Bearer " \o token

\* A pre-check that rejects a declared length equal to the limit.
DeclaredTooLarge_AtLimit(r) ==
  /\ "content-length" \in DOMAIN r.headers
  /\ IsFinite(NumberOf(r.headers["content-length"]))
  /\ NumberOf(r.headers["content-length"]) >= MaxBodyBytes

DeclaredTooLarge(r) ==
  LET contentLength ==
        IF "content-length" \in DOMAIN r.headers
        THEN NumberOf(r.headers["content-length"]) ELSE 0
  IN  IsFinite(contentLength) /\ contentLength > MaxBodyBytes

\* The decision sequence with the authentication gate before the origin
\* check.
Decide_AuthBeforeOrigin(r, token) ==
  IF IsMalformed(r) THEN "bad_request"
  ELSE IF ~UrlParses(Get(r.headers, "host", "localhost")) THEN "threw"
  ELSE IF IsHealth(r) THEN "health"
  ELSE IF IsPreflight(r)
       THEN (IF CorsOf(r) = NoCors THEN "preflight_denied" ELSE "preflight_ok")
  ELSE IF IsNotFound(r) THEN "not_found"
  ELSE IF Unauthorized(r, token) THEN "unauthorized"
  ELSE IF OriginDenied(r) THEN "origin_denied"
  ELSE IF DeclaredTooLarge(r) THEN "too_large"
  ELSE "forward"

\* The branch of the handler that takes request r, in the order of the code.
Decide(r, token) ==
  IF IsMalformed(r) THEN "bad_request"
  ELSE IF ~UrlParses(Get(r.headers, "host", "localhost")) THEN "threw"
  ELSE IF IsHealth(r) THEN "health"
  ELSE IF IsPreflight(r)
       THEN (IF CorsOf(r) = NoCors THEN "preflight_denied" ELSE "preflight_ok")
  ELSE IF IsNotFound(r) THEN "not_found"
  ELSE IF OriginDenied(r) THEN "origin_denied"
  ELSE IF Unauthorized(r, token) THEN "unauthorized"
  ELSE IF DeclaredTooLarge(r) THEN "too_large"
  ELSE "forward"

(* ------------------------------ responses ------------------------------ *)

NoSniff == "X-Content-Type-Options" :> "nosniff"

TextHeaders == ("Content-Type" :> "text/plain; charset=utf-8") @@ NoSniff

JsonHeaders == ("Content-Type" :> "application/json; charset=utf-8") @@ NoSniff

\* A response nothing was written to.
FreshRes ==
  [headersSent |-> FALSE, statusCode |-> 0, headers |-> NoHeaders,
   body |-> <<>>, ended |-> FALSE, destroyed |-> FALSE, closed |-> FALSE,
   heads |-> 0]

\* res.writeHead(status, headers); res.end(body)
WriteHeadAndEnd(r, status, headers, body) ==
  [r EXCEPT !.headersSent = TRUE, !.statusCode = status, !.headers = headers,
            !.body = body, !.ended = TRUE, !.heads = r.heads + 1]

\* The local response of each branch that answers without forwarding.
LocalResponse(r, rt) ==
  CASE rt = "bad_request" -> WriteHeadAndEnd(FreshRes, 400, TextHeaders, <<"Bad request">>)
    [] rt = "health" -> WriteHeadAndEnd(FreshRes, 200, JsonHeaders, <<"{\"ok\":true}">>)
    [] rt = "preflight_denied" -> WriteHeadAndEnd(FreshRes, 403, TextHeaders, <<"Origin not allowed">>)
    [] rt = "preflight_ok" -> WriteHeadAndEnd(FreshRes, 204, ObjectAssign(CorsOf(r), NoSniff), <<>>)
    [] rt = "not_found" -> WriteHeadAndEnd(FreshRes, 404, TextHeaders, <<"Not found">>)
    [] rt = "origin_denied" -> WriteHeadAndEnd(FreshRes, 403, TextHeaders, <<"Origin not allowed">>)
    [] rt = "unauthorized" -> WriteHeadAndEnd(FreshRes, 401, TextHeaders, <<"Unauthorized">>)
    [] rt = "too_large" -> WriteHeadAndEnd(FreshRes, 413, TextHeaders, <<"Request too large">>)
    [] OTHER -> FreshRes

(* ------------------------------ dispatch ------------------------------- *)

\* A handler that opens the upstream request before the auth gate.
Dispatches_BeforeAuthGate(rt) == rt \in {"forward", "unauthorized"}

\* Whether the handler reaches upstreamClient.request: only the requests no
\* earlier branch returned on.
Dispatches(rt) == rt = "forward"

\* const headers = sanitizeRequestHeaders(req.headers), then X-Forwarded-*.
ForwardedHeaders(r) ==
  ObjectAssign(sanitizeRequestHeaders(r.headers),
    ("X-Forwarded-Proto" :> "http") @@
    ("X-Forwarded-Host" :> Get(r.headers, "host", "")) @@
    ("X-Forwarded-For" :> "203.0.113.7"))

NoUpstreamReq ==
  [state |-> "none", method |-> "", search |-> <<>>, headers |-> NoHeaders,
   body |-> <<>>, ended |-> FALSE, error |-> "", errorPending |-> FALSE]

\* An outbound request with a fixed method.
NewUpstreamReq_AlwaysPost(r) ==
  [state |-> "open", method |-> "POST", search |-> UrlSearch(r.url),
   headers |-> ForwardedHeaders(r),
   body |-> <<>>, ended |-> FALSE, error |-> "", errorPending |-> FALSE]

\* upstreamClient.request({ method, path, headers, timeout }, callback)
NewUpstreamReq(r) ==
  [state |-> "open", method |-> r.method, search |-> UrlSearch(r.url),
   headers |-> ForwardedHeaders(r),
   body |-> <<>>, ended |-> FALSE, error |-> "", errorPending |-> FALSE]

NoUpstreamRes ==
  [state |-> "none", statusCode |-> 0, headers |-> NoHeaders, body |-> <<>>]

NewLimiter == [seen |-> 0, passed |-> 0, errored |-> FALSE]

NoBody == [chunks |-> <<>>, ended |-> FALSE]

(* ------------------------------- actions ------------------------------- *)

\* The socket's idle timer and the time since dispatch, both at their start.
ZeroClock == [idle |-> 0, elapsed |-> 0]

\* A call of the handler that has not begun.
IdleCall ==
  [pc |-> "idle",
   req |-> [url |-> <<>>, method |-> "", headers |-> NoHeaders],
   route |-> "", res |-> FreshRes,
   upstreamReq |-> NoUpstreamReq, upstreamRes |-> NoUpstreamRes,
   limiter |-> NewLimiter, reqBody |-> NoBody, attempts |-> 0]

Init ==
  /\ config \in [authBearerToken : AuthTokens]
  /\ pc = "idle"
  /\ req = [url |-> <<>>, method |-> "", headers |-> NoHeaders]
  /\ route = ""
  /\ res = FreshRes
  /\ upstreamReq = NoUpstreamReq
  /\ upstreamRes = NoUpstreamRes
  /\ limiter = NewLimiter
  /\ reqBody = NoBody
  /\ attempts = 0
  /\ clock = ZeroClock
  /\ parked = IdleCall

\* handler(req, res), from its entry to its return, for one of these
\* requests.
HandlerOn(requests) ==
  /\ pc = "idle"
  /\ \E r \in requests :
       LET rt == Decide(r, config.authBearerToken) IN
       /\ req' = r
       /\ route' = rt
       /\ res' = LocalResponse(r, rt)
       /\ pc' = IF rt = "forward" THEN "forwarding"
                ELSE IF rt = "threw" THEN "threw" ELSE "answered"
       /\ upstreamReq' = IF Dispatches(rt) THEN NewUpstreamReq(r) ELSE upstreamReq
       /\ attempts' = IF Dispatches(rt) THEN attempts + 1 ELSE attempts
  /\ UNCHANGED <<config, upstreamRes, limiter, reqBody>>

Handler == HandlerOn(Requests)

\* A limiter that compares before it counts the chunk.
LimiterTransform_ComparesFirst(lim, n) ==
  IF lim.seen > MaxBodyBytes
  THEN [lim EXCEPT !.seen = lim.seen + n, !.errored = TRUE]
  ELSE [lim EXCEPT !.seen = lim.seen + n, !.passed = lim.passed + n]

\* createSizeLimitStream's transform(chunk, _enc, cb) on a chunk of n bytes:
\* the limiter after it, and whether the chunk was passed on.
LimiterTransform(lim, n) ==
  LET seen == lim.seen + n
  IN  IF seen > MaxBodyBytes
      THEN [lim EXCEPT !.seen = seen, !.errored = TRUE]
      ELSE [lim EXCEPT !.seen = seen, !.passed = lim.passed + n]

\* upstreamReq.destroy(err): err is "" when destroy() is called without an
\* error, and the request then fails with a socket hang up ("HANG_UP")
\* unless the response has arrived. A destroyed request is not destroyed
\* again.
Destroy(u, err, responded) ==
  IF u.state # "open" THEN u
  ELSE [u EXCEPT !.state = "destroyed",
                 !.error = IF err # "" THEN err
                           ELSE IF responded THEN "" ELSE "HANG_UP",
                 !.errorPending = (err # "" \/ ~responded)]

Responded == upstreamRes.state # "none"

\* req.pipe(limiter).pipe(upstreamReq): the client delivers a chunk of n
\* bytes; limiter.on("error", (err) => upstreamReq.destroy(err)).
ReqData ==
  /\ pc = "forwarding"
  /\ ~reqBody.ended /\ Len(reqBody.chunks) < MaxReqChunks
  /\ ~limiter.errored /\ upstreamReq.state = "open" /\ ~res.closed
  /\ \E n \in 1..MaxChunk :
       LET lim == LimiterTransform(limiter, n) IN
       /\ reqBody' = [reqBody EXCEPT !.chunks = Append(@, n)]
       /\ limiter' = lim
       /\ upstreamReq' =
            IF lim.errored
            THEN Destroy(upstreamReq, "BODY_TOO_LARGE", Responded)
            ELSE [upstreamReq EXCEPT !.body = Append(@, n)]
  /\ UNCHANGED <<config, pc, req, route, res, upstreamRes, attempts>>

\* The request body ends: the limiter ends and the pipe calls
\* upstreamReq.end().
ReqEnd ==
  /\ pc = "forwarding"
  /\ ~reqBody.ended /\ ~limiter.errored
  /\ upstreamReq.state = "open" /\ ~res.closed
  /\ reqBody' = [reqBody EXCEPT !.ended = TRUE]
  /\ upstreamReq' = [upstreamReq EXCEPT !.ended = TRUE]
  /\ UNCHANGED <<config, pc, req, route, res, upstreamRes, limiter, attempts>>

(* The upstream's answers. Node delivers response header names lower-cased. *)

\* The response heads an upstream answers with: a plain one, one with CORS
\* and sniffing headers of its own, one with Host and every hop-by-hop
\* header.
UpstreamHeads ==
  { [statusCode |-> 200,
     headers |-> ("content-type" :> "application/json")],
    [statusCode |-> 500,
     headers |-> ("content-type" :> "application/json") @@
       ("access-control-allow-origin" :> "*") @@
       ("x-content-type-options" :> "none")],
    [statusCode |-> 200,
     headers |-> ("content-type" :> "text/html") @@
       ("host" :> "upstream.internal") @@
       ("connection" :> "close") @@ ("keep-alive" :> "timeout=5") @@
       ("proxy-authenticate" :> "Basic") @@ ("proxy-authorization" :> "x") @@
       ("te" :> "trailers") @@ ("trailer" :> "Expires") @@
       ("transfer-encoding" :> "chunked") @@ ("upgrade" :> "h2c")] }

UpstreamChunks == {"chunk"}

\* The header set of the relayed response: the upstream's without the
\* hop-by-hop ones, then the CORS headers, then nosniff.
OutHeaders(upstreamHeaders, cors) ==
  LET kept == {k \in DOMAIN upstreamHeaders : k # "" /\ ~isHopByHopHeader(k)}
      outHeaders == [k \in kept |-> upstreamHeaders[k]]
  IN  ObjectAssign(ObjectAssign(outHeaders, cors), NoSniff)

\* res.writeHead(status, headers)
WriteHead(r, status, headers) ==
  [r EXCEPT !.headersSent = TRUE, !.statusCode = status, !.headers = headers,
            !.heads = r.heads + 1]

\* The response callback: (upstreamRes) => { ... res.writeHead(...);
\* upstreamRes.pipe(res); }
UpstreamResponse ==
  /\ pc = "forwarding"
  /\ upstreamReq.state = "open" /\ upstreamRes.state = "none"
  /\ \E head \in UpstreamHeads :
       /\ upstreamRes' = [state |-> "head", statusCode |-> head.statusCode,
                          headers |-> head.headers, body |-> <<>>]
       /\ res' = WriteHead(res, head.statusCode,
                           OutHeaders(head.headers, CorsOf(req)))
  /\ UNCHANGED <<config, pc, req, route, upstreamReq, limiter, reqBody, attempts>>

\* upstreamRes.pipe(res): a chunk of the upstream's body is written to res.
UpstreamData ==
  /\ pc = "forwarding"
  /\ upstreamReq.state = "open" /\ upstreamRes.state = "head"
  /\ Len(upstreamRes.body) < MaxResChunks
  /\ \E c \in UpstreamChunks :
       /\ upstreamRes' = [upstreamRes EXCEPT !.body = Append(@, c)]
       /\ res' = IF res.destroyed \/ res.closed THEN res
                 ELSE [res EXCEPT !.body = Append(@, c)]
  /\ UNCHANGED <<config, pc, req, route, upstreamReq, limiter, reqBody, attempts>>

\* upstreamRes.pipe(res): the upstream's body ends and the pipe calls
\* res.end().
UpstreamEnd ==
  /\ pc = "forwarding"
  /\ upstreamReq.state = "open" /\ upstreamRes.state = "head"
  /\ upstreamRes' = [upstreamRes EXCEPT !.state = "ended"]
  /\ res' = IF res.destroyed \/ res.closed THEN res
            ELSE [res EXCEPT !.ended = TRUE]
  /\ UNCHANGED <<config, pc, req, route, upstreamReq, limiter, reqBody, attempts>>

\* upstreamReq.on("timeout", () => upstreamReq.destroy(new Error(...))):
\* the upstream socket was idle for upstreamTimeoutMs.
UpstreamTimeout ==
  /\ pc = "forwarding"
  /\ upstreamReq.state = "open" /\ upstreamRes.state # "ended"
  /\ upstreamReq' = Destroy(upstreamReq, "TIMEOUT", Responded)
  /\ UNCHANGED <<config, pc, req, route, res, upstreamRes, limiter, reqBody, attempts>>

\* The upstream socket fails (connection refused, reset): the request is
\* destroyed with that error.
UpstreamError ==
  /\ pc = "forwarding"
  /\ upstreamReq.state = "open" /\ upstreamRes.state # "ended"
  /\ upstreamReq' = Destroy(upstreamReq, "ECONNRESET", Responded)
  /\ UNCHANGED <<config, pc, req, route, res, upstreamRes, limiter, reqBody, attempts>>

\* The upstream closes its connection in the middle of the response body:
\* the response is aborted, and the request emits no error.
UpstreamAbort ==
  /\ pc = "forwarding"
  /\ upstreamReq.state = "open" /\ upstreamRes.state = "head"
  /\ upstreamRes' = [upstreamRes EXCEPT !.state = "aborted"]
  /\ upstreamReq' = Destroy(upstreamReq, "", TRUE)
  /\ UNCHANGED <<config, pc, req, route, res, limiter, reqBody, attempts>>

\* upstreamReq.on("error", (err) => { ... }): the error a destroy left
\* pending is delivered to the listener.
\* An error listener that answers every failure with 502.
ErrorListener_Always502 ==
  /\ pc = "forwarding"
  /\ upstreamReq.errorPending
  /\ upstreamReq' = [upstreamReq EXCEPT !.errorPending = FALSE]
  /\ res' =
       IF res.headersSent THEN [res EXCEPT !.destroyed = TRUE]
       ELSE WriteHeadAndEnd(res, 502, TextHeaders, <<"Bad gateway">>)
  /\ UNCHANGED <<config, pc, req, route, upstreamRes, limiter, reqBody, attempts>>

\* An error listener that does not look at res.headersSent.
ErrorListener_NoHeadersSentCheck ==
  /\ pc = "forwarding"
  /\ upstreamReq.errorPending
  /\ upstreamReq' = [upstreamReq EXCEPT !.errorPending = FALSE]
  /\ res' =
       LET code == IF upstreamReq.error = "BODY_TOO_LARGE" THEN 413 ELSE 502
       IN  WriteHeadAndEnd(res, code, TextHeaders,
             IF code = 413 THEN <<"Request too large">> ELSE <<"Bad gateway">>)
  /\ UNCHANGED <<config, pc, req, route, upstreamRes, limiter, reqBody, attempts>>

ErrorListener ==
  /\ pc = "forwarding"
  /\ upstreamReq.errorPending
  /\ upstreamReq' = [upstreamReq EXCEPT !.errorPending = FALSE]
  /\ res' =
       IF res.headersSent THEN [res EXCEPT !.destroyed = TRUE]
       ELSE LET code == IF upstreamReq.error = "BODY_TOO_LARGE" THEN 413 ELSE 502
            IN  WriteHeadAndEnd(res, code, TextHeaders,
                  IF code = 413 THEN <<"Request too large">> ELSE <<"Bad gateway">>)
  /\ UNCHANGED <<config, pc, req, route, upstreamRes, limiter, reqBody, attempts>>

\* A close listener that leaves the upstream request alone.
ResClose_NoDestroy ==
  /\ pc = "forwarding"
  /\ ~res.closed
  /\ res' = [res EXCEPT !.closed = TRUE]
  /\ UNCHANGED <<config, pc, req, route, upstreamReq, upstreamRes, limiter,
                 reqBody, attempts>>

\* res.on("close", () => upstreamReq.destroy()): the client connection
\* closed, after the response or before its end.
ResClose ==
  /\ pc = "forwarding"
  /\ ~res.closed
  /\ res' = [res EXCEPT !.closed = TRUE]
  /\ upstreamReq' = Destroy(upstreamReq, "", Responded)
  /\ UNCHANGED <<config, pc, req, route, upstreamRes, limiter, reqBody, attempts>>

\* One request at a time, with the time abstracted: the timer may fire at
\* any moment before the upstream's response has ended.
Next ==
  \/ Handler /\ UNCHANGED <<clock, parked>>
  \/ ReqData /\ UNCHANGED <<clock, parked>>
  \/ ReqEnd /\ UNCHANGED <<clock, parked>>
  \/ UpstreamResponse /\ UNCHANGED <<clock, parked>>
  \/ UpstreamData /\ UNCHANGED <<clock, parked>>
  \/ UpstreamEnd /\ UNCHANGED <<clock, parked>>
  \/ UpstreamTimeout /\ UNCHANGED <<clock, parked>>
  \/ UpstreamError /\ UNCHANGED <<clock, parked>>
  \/ UpstreamAbort /\ UNCHANGED <<clock, parked>>
  \/ ErrorListener /\ UNCHANGED <<clock, parked>>
  \/ ResClose /\ UNCHANGED <<clock, parked>>

Spec == Init /\ [][Next]_vars

\* ---------------------------------------------------------------------------
\* The upstream timeout with the time counted: `timeout: upstreamTimeoutMs`
\* in the options of upstreamClient.request is the idle timeout of the
\* request's socket, which every read and write on the socket restarts.

Min(a, b) == IF a < b THEN a ELSE b

\* A timer that activity on the socket does not restart.
Activity_WallClock(c) == c

\* A read or a write on the upstream socket restarts its idle timer.
Activity(c) == [c EXCEPT !.idle = 0]

\* One tick passes while the upstream exchange is under way. The 'timeout'
\* event is due when the socket has been idle for upstreamTimeoutTicks: no
\* further tick passes before it (or another event of the socket) happened.
Tick ==
  /\ pc = "forwarding"
  /\ upstreamReq.state = "open"
  /\ upstreamRes.state # "ended"
  /\ clock.idle < upstreamTimeoutTicks
  /\ clock' = [idle |-> clock.idle + 1,
               elapsed |-> Min(clock.elapsed + 1, MaxElapsed)]
  /\ UNCHANGED <<config, call, parked>>

\* The requests of the timed specification: a POST on the proxy path.
TimedRequests ==
  { [url |-> mcpPath, method |-> "POST",
     headers |-> RequestHeaders("proxy.example", o, NoValue, NoValue)] :
      o \in Origins }

NextTimed ==
  \/ Tick
  \/ HandlerOn(TimedRequests) /\ clock' = ZeroClock /\ UNCHANGED parked
  \/ ReqData /\ clock' = Activity(clock) /\ UNCHANGED parked
  \/ ReqEnd /\ clock' = Activity(clock) /\ UNCHANGED parked
  \/ UpstreamResponse /\ clock' = Activity(clock) /\ UNCHANGED parked
  \/ UpstreamData /\ clock' = Activity(clock) /\ UNCHANGED parked
  \/ UpstreamEnd /\ clock' = Activity(clock) /\ UNCHANGED parked
  \/ UpstreamTimeout /\ clock.idle = upstreamTimeoutTicks
       /\ UNCHANGED <<clock, parked>>
  \/ UpstreamError /\ UNCHANGED <<clock, parked>>
  \/ UpstreamAbort /\ UNCHANGED <<clock, parked>>
  \/ ErrorListener /\ UNCHANGED <<clock, parked>>
  \/ ResClose /\ UNCHANGED <<clock, parked>>

SpecTimed == Init /\ [][NextTimed]_vars

\* ---------------------------------------------------------------------------
\* Two requests in flight. Each call of the handler has its own arguments,
\* locals and listeners (the closures of lines 271-380); the calls share the
\* configuration captured by createProxyHandler and nothing else. Node runs
\* one listener at a time, so the listeners of the two calls interleave.

\* The call the listeners are running for.
Active ==
  [pc |-> pc, req |-> req, route |-> route, res |-> res,
   upstreamReq |-> upstreamReq, upstreamRes |-> upstreamRes,
   limiter |-> limiter, reqBody |-> reqBody, attempts |-> attempts]

\* The two calls with one size limit stream between them.
Switch_SharedLimiter ==
  /\ parked' = Active
  /\ pc' = parked.pc /\ req' = parked.req /\ route' = parked.route
  /\ res' = parked.res
  /\ upstreamReq' = parked.upstreamReq /\ upstreamRes' = parked.upstreamRes
  /\ reqBody' = parked.reqBody /\ attempts' = parked.attempts
  /\ UNCHANGED <<config, clock, limiter>>

\* The two calls with one upstream response between them.
Switch_SharedUpstreamRes ==
  /\ parked' = Active
  /\ pc' = parked.pc /\ req' = parked.req /\ route' = parked.route
  /\ res' = parked.res
  /\ upstreamReq' = parked.upstreamReq /\ limiter' = parked.limiter
  /\ reqBody' = parked.reqBody /\ attempts' = parked.attempts
  /\ UNCHANGED <<config, clock, upstreamRes>>

\* The event loop turns from the listeners of one call to those of the
\* other: each call keeps its own state.
Switch ==
  /\ parked' = Active
  /\ pc' = parked.pc /\ req' = parked.req /\ route' = parked.route
  /\ res' = parked.res
  /\ upstreamReq' = parked.upstreamReq /\ upstreamRes' = parked.upstreamRes
  /\ limiter' = parked.limiter
  /\ reqBody' = parked.reqBody /\ attempts' = parked.attempts
  /\ UNCHANGED <<config, clock>>

\* A call is over (answered, or its client connection closed and its error
\* event delivered); the server calls the handler afresh for the next
\* request.
NewRequest ==
  /\ \/ pc = "answered"
     \/ pc = "forwarding" /\ res.closed /\ ~upstreamReq.errorPending
  /\ pc' = IdleCall.pc /\ req' = IdleCall.req /\ route' = IdleCall.route
  /\ res' = IdleCall.res
  /\ upstreamReq' = IdleCall.upstreamReq /\ upstreamRes' = IdleCall.upstreamRes
  /\ limiter' = IdleCall.limiter
  /\ reqBody' = IdleCall.reqBody /\ attempts' = IdleCall.attempts
  /\ UNCHANGED <<config, clock, parked>>

\* The requests of the two-request specification: a POST on the proxy path,
\* from an allowlisted origin or without Origin.
PairRequests ==
  { [url |-> mcpPath, method |-> "POST",
     headers |-> RequestHeaders("proxy.example", o, NoValue, NoValue)] :
      o \in {NoValue, {"https://chatgpt.com"}} }

\* The events of two calls interleaved; of the request body and of the
\* upstream's body, the first chunk.
NextPair ==
  \/ HandlerOn(PairRequests) /\ UNCHANGED <<clock, parked>>
  \/ ReqData /\ reqBody.chunks = <<>> /\ UNCHANGED <<clock, parked>>
  \/ UpstreamResponse /\ UNCHANGED <<clock, parked>>
  \/ UpstreamData /\ upstreamRes.body = <<>> /\ UNCHANGED <<clock, parked>>
  \/ UpstreamEnd /\ UNCHANGED <<clock, parked>>
  \/ UpstreamTimeout /\ UNCHANGED <<clock, parked>>
  \/ UpstreamError /\ UNCHANGED <<clock, parked>>
  \/ UpstreamAbort /\ UNCHANGED <<clock, parked>>
  \/ ErrorListener /\ UNCHANGED <<clock, parked>>
  \/ ResClose /\ UNCHANGED <<clock, parked>>
  \/ Switch
  \/ NewRequest

SpecPair == Init /\ [][NextPair]_vars


(* ------------------------------- claims -------------------------------- *)

RECURSIVE Sum(_)
Sum(s) == IF s = <<>> THEN 0 ELSE s[1] + Sum(Tail(s))

\* The handler parsed the request's URL and computed its path.
Routed == pc # "idle" /\ route \notin {"bad_request", "threw"}

\* The request is a POST, GET or DELETE on the proxy path.
Proxyable == Routed /\ req.method \in {"POST", "GET", "DELETE"} /\ PathOf(req) = mcpPath

\* The request's Origin header is absent (or empty) or on the allowlist.
OriginPasses == OriginOf(req) = "" \/ OriginOf(req) \in allowedOrigins

\* The request's Authorization header is exactly "Bearer <secret>".
AuthExact ==
  /\ "authorization" \in DOMAIN req.headers
  /\ req.headers["authorization"] = "Bearer " \o config.authBearerToken

\* The proxy itself answered with this status (it is no relayed status).
ProxyAnswered(code) ==
  res.headersSent /\ res.statusCode = code /\ upstreamRes.state = "none"

NoUpstreamContact == attempts = 0 /\ upstreamReq.state = "none"

CorsHeaderNames ==
  {"access-control-allow-origin", "access-control-allow-methods",
   "access-control-allow-headers", "access-control-allow-credentials"}

NoCorsHeaders(headers) ==
  \A k \in DOMAIN headers : ToLowerCase(k) \notin CorsHeaderNames

\* C1, as claimed: a request that fails a check (400, 403, 401, 404, or 413
\* by the pre-check or by streaming overflow) never had an upstream
\* connection opened for it.
C1_FailClosed_AsClaimed ==
  (\E code \in {400, 401, 403, 404, 413} : ProxyAnswered(code))
    => NoUpstreamContact

\* C1, amended: a request answered 400, 403, 401 or 404, or 413 by the
\* content-length pre-check, never had an upstream connection opened. A
\* streaming overflow is detected on a request already dispatched: the one
\* upstream request is destroyed with BODY_TOO_LARGE after at most
\* maxBodyBytes body bytes were passed to it.
C1_FailClosed ==
  /\ (\E code \in {400, 401, 403, 404} : ProxyAnswered(code))
       => NoUpstreamContact
  /\ (ProxyAnswered(413) /\ ~limiter.errored) => NoUpstreamContact
  /\ route \in {"bad_request", "preflight_denied", "not_found",
                 "origin_denied", "unauthorized", "too_large"}
       => NoUpstreamContact
  /\ limiter.errored =>
       /\ attempts = 1
       /\ upstreamReq.state = "destroyed"
       /\ upstreamReq.error = "BODY_TOO_LARGE"
       /\ Sum(upstreamReq.body) <= MaxBodyBytes

C1_Witness ==
  /\ ProxyAnswered(413) /\ limiter.errored
  /\ upstreamReq.body # <<>>

\* C2: an Access-Control-Allow-Origin header reaches the client only if the
\* request's Origin is on the allowlist, and its only value is then that
\* Origin; never "*", never a value from the upstream's headers.
C2_NoWildcardNoReflection ==
  res.headersSent =>
    WireValues(res.headers, "access-control-allow-origin") \subseteq
      (IF OriginOf(req) \in allowedOrigins THEN {OriginOf(req)} ELSE {})

\* C3: an OPTIONS request on the proxy path is answered 403 "Origin not
\* allowed" without CORS headers when its Origin is not on the allowlist,
\* and 204 with Access-Control-Allow-Origin equal to its Origin when it is;
\* the upstream is contacted in neither case.
C3_Preflight ==
  (Routed /\ req.method = "OPTIONS" /\ PathOf(req) = mcpPath) =>
    /\ NoUpstreamContact
    /\ res.headersSent /\ res.ended
    /\ IF OriginOf(req) \in allowedOrigins
       THEN /\ res.statusCode = 204
            /\ WireValues(res.headers, "access-control-allow-origin")
                 = {OriginOf(req)}
       ELSE /\ res.statusCode = 403
            /\ res.body = <<"Origin not allowed">>
            /\ NoCorsHeaders(res.headers)

C3_Witness ==
  /\ Routed /\ req.method = "OPTIONS"
  /\ req.url = <<"/", "m", "c", "p", "/">>
  /\ OriginOf(req) = "https://chatgpt.com"
  /\ res.statusCode = 204

\* C4, as claimed: with a secret configured, every POST/GET/DELETE request
\* on the proxy path whose Authorization is not exactly "Bearer <secret>"
\* is answered 401 "Unauthorized".
C4_AuthGate_AsClaimed ==
  (Proxyable /\ Truthy(config.authBearerToken) /\ ~AuthExact) =>
    /\ ProxyAnswered(401) /\ res.body = <<"Unauthorized">>
    /\ NoUpstreamContact

\* C4, amended: with a secret configured, a POST/GET/DELETE request on
\* the proxy path whose Authorization is not exactly "Bearer <secret>" never
\* reaches the upstream, and is answered 401 "Unauthorized" when its Origin
\* is absent or allowlisted (403 when its Origin is denied); with the exact
\* header and the other checks passed it is forwarded with one upstream
\* request. Without a secret the gate rejects nothing.
C4_AuthGate ==
  /\ (Proxyable /\ Truthy(config.authBearerToken) /\ ~AuthExact) =>
       /\ NoUpstreamContact
       /\ IF OriginPasses
          THEN ProxyAnswered(401) /\ res.body = <<"Unauthorized">>
          ELSE ProxyAnswered(403) /\ res.body = <<"Origin not allowed">>
  /\ (Proxyable /\ Truthy(config.authBearerToken) /\ AuthExact
        /\ OriginPasses /\ ~DeclaredTooLarge(req)) =>
       route = "forward" /\ attempts = 1
  /\ ~Truthy(config.authBearerToken) =>
       route # "unauthorized" /\ ~ProxyAnswered(401)

C4_Witness ==
  /\ Proxyable /\ Truthy(config.authBearerToken)
  /\ Get(req.headers, "authorization", "") = "Bearer wrong"
  /\ OriginOf(req) = "https://chatgpt.com"
  /\ ProxyAnswered(401)

\* The declared Content-Length of the request is the number n.
Declares(n) ==
  /\ "content-length" \in DOMAIN req.headers
  /\ req.headers["content-length"] = Digits(n)

\* The request passed the origin and the auth check.
PassedOriginAndAuth ==
  Proxyable /\ OriginPasses /\ (Truthy(config.authBearerToken) => AuthExact)

\* C5: a proxyable request that passed the origin and auth checks is
\* answered 413 "Request too large" without any upstream connection exactly
\* when its declared Content-Length is a number above maxBodyBytes; a
\* declared length equal to maxBodyBytes, absent or not numeric does not
\* trigger the pre-check, and the request is dispatched.
C5_ContentLengthPreCheck ==
  PassedOriginAndAuth =>
    /\ Declares(MaxBodyBytes + 1) =>
         /\ route = "too_large" /\ NoUpstreamContact
         /\ ProxyAnswered(413) /\ res.body = <<"Request too large">>
    /\ ( \/ Declares(MaxBodyBytes)
         \/ "content-length" \notin DOMAIN req.headers
         \/ Get(req.headers, "content-length", <<>>) = <<"x">> ) =>
         route = "forward" /\ attempts = 1

C5_Witness ==
  /\ PassedOriginAndAuth /\ Declares(MaxBodyBytes + 1)
  /\ ProxyAnswered(413) /\ attempts = 0

\* C6: whatever length was declared, the bytes the size guard passes on
\* toward the upstream never exceed maxBodyBytes; the first chunk that
\* takes the count above maxBodyBytes is not passed on and raises
\* BODY_TOO_LARGE; a body of at most maxBodyBytes passes entirely, without
\* error.
C6_StreamingSizeCap ==
  /\ Sum(upstreamReq.body) <= MaxBodyBytes
  /\ limiter.passed = Sum(upstreamReq.body)
  /\ limiter.errored <=> Sum(reqBody.chunks) > MaxBodyBytes
  /\ limiter.errored =>
       /\ upstreamReq.body = SubSeq(reqBody.chunks, 1, Len(reqBody.chunks) - 1)
       /\ upstreamReq.error = "BODY_TOO_LARGE"
  /\ ~limiter.errored => upstreamReq.body = reqBody.chunks

C6_Witness ==
  /\ reqBody.ended /\ Len(reqBody.chunks) = 2
  /\ Sum(reqBody.chunks) = MaxBodyBytes
  /\ upstreamReq.body = reqBody.chunks

\* C7: a GET request whose normalized path is /health is answered 200
\* {"ok":true} whatever its Origin, the auth configuration, its
\* Authorization and its declared length, and never reaches the upstream.
C7_HealthUnconditional ==
  (Routed /\ req.method = "GET"
     /\ PathOf(req) = <<"/", "h", "e", "a", "l", "t", "h">>) =>
    /\ ProxyAnswered(200) /\ res.ended
    /\ res.body = <<"{\"ok\":true}">>
    /\ NoUpstreamContact

C7_Witness ==
  /\ Routed /\ req.method = "GET"
  /\ req.url = <<"/", "h", "e", "a", "l", "t", "h", "/", "?", "a">>
  /\ OriginOf(req) = "https://evil.example"
  /\ Truthy(config.authBearerToken) /\ ~AuthExact
  /\ Declares(MaxBodyBytes + 1)
  /\ res.statusCode = 200

\* The forwarded exchange ran to its end: the whole request body was sent
\* and the upstream's whole response was relayed.
Relayed ==
  /\ route = "forward" /\ reqBody.ended /\ ~limiter.errored
  /\ upstreamRes.state = "ended" /\ res.ended

\* C8: a forwarded request that a responsive upstream answers is sent
\* upstream once, with the request's method and unchanged body, and the
\* client receives the upstream's status and body unchanged, plus the CORS
\* headers when its Origin is allowlisted.
C8_TransparentRelay ==
  Relayed =>
    /\ attempts = 1
    /\ upstreamReq.method = req.method
    /\ upstreamReq.body = reqBody.chunks
    /\ res.statusCode = upstreamRes.statusCode
    /\ res.body = upstreamRes.body
    /\ res.heads = 1
    /\ OriginOf(req) \in allowedOrigins =>
         /\ "Access-Control-Allow-Origin" \in DOMAIN res.headers
         /\ res.headers["Access-Control-Allow-Origin"] = OriginOf(req)

C8_Witness ==
  /\ Relayed /\ req.method = "DELETE"
  /\ Len(reqBody.chunks) = 2 /\ res.body = <<"chunk">>
  /\ res.statusCode = 500
  /\ OriginOf(req) = "https://chatgpt.com"

HopByHopNames ==
  {"connection", "keep-alive", "proxy-authenticate", "proxy-authorization",
   "te", "trailer", "transfer-encoding", "upgrade"}

\* The upstream's response head was relayed to the client.
HeadRelayed == upstreamRes.state # "none" /\ res.headersSent

\* C9, as claimed: neither the header set passed to the upstream request
\* nor the header set relayed to the client contains Host or a hop-by-hop
\* header, under any letter case.
C9_HopByHop_AsClaimed ==
  /\ upstreamReq.state # "none" =>
       \A k \in DOMAIN upstreamReq.headers :
         ToLowerCase(k) \notin HopByHopNames \cup {"host"}
  /\ HeadRelayed =>
       \A k \in DOMAIN res.headers :
         ToLowerCase(k) \notin HopByHopNames \cup {"host"}

\* C9, amended: the header set passed to the upstream request contains
\* neither Host nor a hop-by-hop header under any letter case; the header
\* set relayed to the client contains no hop-by-hop header, and keeps a
\* Host header of the upstream's response.
C9_HopByHop ==
  /\ upstreamReq.state # "none" =>
       \A k \in DOMAIN upstreamReq.headers :
         ToLowerCase(k) \notin HopByHopNames \cup {"host"}
  /\ HeadRelayed =>
       /\ \A k \in DOMAIN res.headers : ToLowerCase(k) \notin HopByHopNames
       /\ "host" \in DOMAIN upstreamRes.headers => "host" \in DOMAIN res.headers

C9_Witness ==
  /\ HeadRelayed
  /\ "trailer" \in DOMAIN upstreamRes.headers
  /\ "host" \in DOMAIN res.headers
  /\ "accept" \in DOMAIN upstreamReq.headers

\* C10: every response head the proxy writes carries
\* X-Content-Type-Options: nosniff, and the upstream's response headers
\* neither remove it nor put another value beside it.
C10_NoSniffEverywhere ==
  res.headersSent =>
    WireValues(res.headers, "x-content-type-options") = {"nosniff"}


\* The upstream failed: the request timed out or its socket failed, or the
\* upstream closed the connection in the middle of its response.
UpstreamFailed ==
  upstreamReq.error \in {"TIMEOUT", "ECONNRESET"} \/ upstreamRes.state = "aborted"

\* C11: after an upstream timeout or an upstream error, the client has 502
\* "Bad gateway" when no response head was sent before the failure; when
\* the head was sent (a failure while the body is relayed included), the
\* client connection is destroyed and no second status is written.
C11_UpstreamFailure ==
  (UpstreamFailed /\ ~upstreamReq.errorPending) =>
    IF upstreamRes.state = "none"
    THEN res.statusCode = 502 /\ res.body = <<"Bad gateway">> /\ res.ended
    ELSE res.destroyed /\ res.heads = 1

\* C12: when the client connection closes, the paired upstream request is
\* destroyed in the step of the close event, and no request byte is passed
\* to the upstream afterwards.
C12_ClientAbort ==
  /\ [](res.closed => upstreamReq.state = "destroyed")
  /\ [][res.closed => upstreamReq'.body = upstreamReq.body]_vars
  /\ [][upstreamReq.state = "destroyed" =>
          /\ upstreamReq'.state = "destroyed"
          /\ upstreamReq'.body = upstreamReq.body]_vars

C12_Witness ==
  /\ res.closed /\ ~res.ended
  /\ upstreamRes.state = "head" /\ ~reqBody.ended
  /\ upstreamReq.body # <<>>
  /\ upstreamReq.state = "destroyed"


\* The upstream exchange is under way: dispatched, not torn down, and the
\* upstream's response has not ended.
ExchangeUnderWay ==
  pc = "forwarding" /\ upstreamReq.state = "open" /\ upstreamRes.state # "ended"

\* C13 as stated: the timeout is one wall-clock bound from dispatch, so no
\* exchange is under way later than upstreamTimeoutTicks after its dispatch,
\* and the timeout fires only before the upstream's response head arrived.
C13_WallClockTimeout_AsClaimed ==
  /\ ExchangeUnderWay => clock.elapsed <= upstreamTimeoutTicks
  /\ upstreamReq.error = "TIMEOUT" => upstreamRes.state = "none"

\* C13, amended: the timeout bounds the idle time of the upstream socket.
\* No exchange is under way with the socket idle for longer than
\* upstreamTimeoutTicks; the timeout fires exactly at that idle time, in any
\* phase before the upstream's response has ended; every read or write on
\* the socket restarts the idle time.
C13_IdleTimeout ==
  /\ [](ExchangeUnderWay => clock.idle <= upstreamTimeoutTicks)
  /\ [](upstreamReq.error = "TIMEOUT" =>
          clock.idle = upstreamTimeoutTicks /\ upstreamRes.state # "ended")
  /\ [][(/\ ExchangeUnderWay
          /\ \/ upstreamReq'.body # upstreamReq.body
             \/ (upstreamRes'.state \in {"head", "ended"}
                 /\ upstreamRes' # upstreamRes))
          => clock'.idle = 0]_vars

C13_Witness ==
  /\ upstreamReq.error = "TIMEOUT"
  /\ clock.elapsed > upstreamTimeoutTicks
  /\ upstreamRes.state = "head" /\ res.destroyed

\* What a call shows is explained by its own request and its own events:
\* the limiter counted its own bytes, the relayed head and body are those of
\* its own upstream response, an error status or a teardown has a cause in
\* the call itself.
OwnOutcome(c) ==
  /\ c.route = (IF c.pc = "idle" THEN "" ELSE Decide(c.req, config.authBearerToken))
  /\ c.attempts = (IF c.pc = "forwarding" THEN 1 ELSE 0)
  /\ c.limiter.seen = Sum(c.reqBody.chunks)
  /\ c.limiter.errored <=> Sum(c.reqBody.chunks) > MaxBodyBytes
  /\ c.upstreamReq.body =
       (IF c.limiter.errored THEN <<>> ELSE c.reqBody.chunks)
  /\ c.upstreamRes.state # "none" =>
       /\ c.res.statusCode = c.upstreamRes.statusCode
       /\ c.res.headers = OutHeaders(c.upstreamRes.headers, CorsOf(c.req))
       /\ (~c.res.destroyed /\ ~c.res.closed) => c.res.body = c.upstreamRes.body
  /\ (c.pc = "forwarding" /\ c.upstreamRes.state = "none" /\ c.res.headersSent) =>
       \/ c.res.statusCode = 413 /\ c.upstreamReq.error = "BODY_TOO_LARGE"
       \/ c.res.statusCode = 502 /\ c.upstreamReq.error \in {"TIMEOUT", "ECONNRESET"}
       \/ c.res.statusCode = 502 /\ c.upstreamReq.error = "HANG_UP" /\ c.res.closed
  /\ c.upstreamReq.error = "BODY_TOO_LARGE" => c.limiter.errored
  /\ c.upstreamReq.state = "destroyed" =>
       \/ c.upstreamReq.error \in {"TIMEOUT", "ECONNRESET", "BODY_TOO_LARGE"}
       \/ c.res.closed
       \/ c.upstreamRes.state = "aborted"
  /\ c.res.destroyed => c.upstreamReq.state = "destroyed"

\* C14: with two requests in flight and their events interleaved, what each
\* response shows comes from that request's own upstream exchange and own
\* events, and a step for one request leaves the other request's state as it
\* was.
C14_RequestIsolation ==
  /\ [](OwnOutcome(Active) /\ OwnOutcome(parked))
  /\ [][parked' # parked => (parked' = Active /\ Active' = parked)]_vars

C14_Witness ==
  /\ limiter.errored /\ res.statusCode = 413
  /\ parked.req # req
  /\ parked.upstreamRes.state = "ended" /\ parked.res.ended
  /\ parked.res.statusCode = 200 /\ parked.upstreamReq.state = "open"
  /\ parked.res.body = <<"chunk">>

\* The CORS headers of a response, by name and value.
CorsHeaderSet(headers) ==
  {<<k, headers[k]>> : k \in {h \in DOMAIN headers :
      ToLowerCase(h) \in CorsHeaderNames \/ h = "Vary"}}

\* C15: two identical requests under the same configuration get the same
\* decision; answered by the proxy itself they get the same response, and
\* answered identically by the upstream they get the same status and the
\* same CORS header set, whatever was handled before or between.
C15_Determinism ==
  (pc # "idle" /\ parked.pc # "idle" /\ req = parked.req) =>
    /\ route = parked.route
    /\ pc = "answered" => res = parked.res
    /\ (/\ upstreamRes.state # "none" /\ parked.upstreamRes.state # "none"
        /\ upstreamRes.statusCode = parked.upstreamRes.statusCode
        /\ upstreamRes.headers = parked.upstreamRes.headers)
        => /\ res.statusCode = parked.res.statusCode
           /\ CorsHeaderSet(res.headers) = CorsHeaderSet(parked.res.headers)

C15_Witness ==
  /\ req = parked.req /\ OriginOf(req) \in allowedOrigins
  /\ upstreamRes.state = "ended" /\ parked.upstreamRes.state = "head"
  /\ upstreamRes.statusCode = 500
  /\ upstreamRes.headers = parked.upstreamRes.headers
  /\ parked.reqBody.chunks # reqBody.chunks
  /\ "Access-Control-Allow-Origin" \in DOMAIN res.headers
  /\ CorsHeaderSet(res.headers) = CorsHeaderSet(parked.res.headers)

\* The request has no Origin header (or an empty one).
NoOrigin == OriginOf(req) = ""

OriginNotAllowedAnswer ==
  ProxyAnswered(403) /\ res.body = <<"Origin not allowed">>

\* The names of the CORS headers the proxy itself produces.
ProxyCorsNames ==
  UNION {DOMAIN corsHeadersForOrigin(o) : o \in allowedOrigins}

NoProxyCorsHeaders == DOMAIN res.headers \cap ProxyCorsNames = {}

\* C16 as stated: no request without an Origin header is answered 403
\* "Origin not allowed", and no response to such a request carries CORS
\* allow headers produced by the proxy.
C16_MissingOrigin_AsClaimed ==
  (Routed /\ NoOrigin) => (~OriginNotAllowedAnswer /\ NoProxyCorsHeaders)

\* C16, amended: a request without an Origin header is answered 403 "Origin
\* not allowed" exactly when it is an OPTIONS preflight on the proxy path;
\* a POST, GET or DELETE without Origin is never denied on the ground of its
\* origin, and no response to a request without Origin carries CORS allow
\* headers produced by the proxy.
C16_MissingOrigin ==
  (Routed /\ NoOrigin) =>
    /\ OriginNotAllowedAnswer <=>
         (req.method = "OPTIONS" /\ PathOf(req) = mcpPath)
    /\ route # "origin_denied"
    /\ NoProxyCorsHeaders

C16_Witness ==
  /\ Proxyable /\ NoOrigin /\ HeadRelayed
  /\ "access-control-allow-origin" \in DOMAIN res.headers

ProxyUrls ==
  {mcpPath, mcpPath \o <<"/">>, mcpPath \o <<"?", "a">>}

HealthUrls ==
  { <<"/", "h", "e", "a", "l", "t", "h">>,
    <<"/", "h", "e", "a", "l", "t", "h", "/", "?", "a">> }

\* C17: a well-formed request gets the outcome of the first matching step of
\* health, preflight, not-found, origin, auth, size pre-check, forward: 404
\* comes before the origin and credential checks, a disallowed Origin (403)
\* before wrong credentials (401), and the proxy path with a trailing slash
\* or a query string is the proxy path.
C17_DecisionOrder ==
  Routed =>
    LET m == req.method
        onProxy == req.url \in ProxyUrls
        o == OriginOf(req)
    IN  IF m = "GET" /\ req.url \in HealthUrls
          THEN ProxyAnswered(200) /\ NoUpstreamContact
        ELSE IF m = "OPTIONS" /\ onProxy
          THEN /\ ProxyAnswered(IF o \in allowedOrigins THEN 204 ELSE 403)
               /\ NoUpstreamContact
        ELSE IF ~onProxy \/ m \notin {"POST", "GET", "DELETE"}
          THEN ProxyAnswered(404) /\ NoUpstreamContact
        ELSE IF o # "" /\ o \notin allowedOrigins
          THEN ProxyAnswered(403) /\ NoUpstreamContact
        ELSE IF Truthy(config.authBearerToken) /\ ~AuthExact
          THEN ProxyAnswered(401) /\ NoUpstreamContact
        ELSE IF Declares(MaxBodyBytes + 1)
          THEN ProxyAnswered(413) /\ NoUpstreamContact
        ELSE attempts = 1 /\ upstreamReq.state # "none"

C17_Witness ==
  /\ req.url = mcpPath \o <<"/">> /\ req.method = "POST"
  /\ OriginOf(req) = "https://evil.example"
  /\ Truthy(config.authBearerToken) /\ ~AuthExact
  /\ Declares(MaxBodyBytes + 1)
  /\ ProxyAnswered(403)

C19_SingleHead_AsClaimed ==
  [][(res.headersSent \/ res.closed) => res'.heads = res.heads]_vars

\* C19, amended: the handler writes at most one response head per request
\* and a written head is never followed by another; after a client close
\* that came before any head, the only head written is the one of the error
\* listener (502 or 413), to the closed connection.
C19_SingleHead ==
  /\ [](res.heads <= 1 /\ (res.headersSent <=> res.heads = 1))
  /\ [][res.headersSent =>
          res'.heads = res.heads /\ res'.statusCode = res.statusCode]_vars
  /\ [][(res.closed /\ res'.heads # res.heads) =>
          upstreamReq.errorPending /\ res'.statusCode \in {502, 413}]_vars

C19_Witness ==
  /\ res.closed /\ res.heads = 1 /\ res.statusCode = 502
  /\ upstreamReq.error = "HANG_UP"

\* A step of one of the event sources the handler waits for: the client's
\* body, the upstream, the timer, a pending error event.
EventStep ==
  \/ ReqData \/ ReqEnd
  \/ UpstreamResponse \/ UpstreamData \/ UpstreamEnd
  \/ UpstreamTimeout \/ UpstreamError \/ UpstreamAbort
  \/ ErrorListener

\* The client response is ended or the client connection is gone, and the
\* upstream request, if there is one, is completed or destroyed.
Terminal ==
  /\ res.ended \/ res.destroyed \/ res.closed
  /\ \/ upstreamReq.state \in {"none", "destroyed"}
     \/ upstreamRes.state = "ended"

\* C20: no request hangs: a request that entered the handler and for which
\* no event source has a step left is in a terminal state.
C20_NoRequestHangs ==
  (pc # "idle" /\ ~ENABLED EventStep) => Terminal

=============================================================================
